---- MODULE Spec2Model ----
(***************************************************************************)
(* regress-stack: the module dependency resolver and the execution driver  *)
(* (plan / setup / test / list-modules) of src/regress_stack/__main__.py,  *)
(* with the completion store of src/regress_stack/core/utils.py.           *)
(*                                                                         *)
(* regress_stack.core.modules (get_execution_order, modules) is imported   *)
(* by __main__.py but is not among the source files; it is modelled from   *)
(* section 4.2 of the specification.                                       *)
(***************************************************************************)
EXTENDS Integers, Sequences, FiniteSets, TLC

VARIABLES
    present,      \* names of the modules in the registry snapshot
    deps,         \* dependency edges <<module, dependency, "req" | "opt">>
    hasSetup,     \* hasSetup[m]: module m defines a setup() function
    markers,      \* REGRESS_STACK_DIR: names n for which <n>.setup exists
    before,       \* history: the markers that existed when the process started
    pc,           \* position of the process: "start" | "loop" | "running" |
                  \* "except" | "failing" | "exit"
    cmd,          \* command of the current (or last) invocation
    target,       \* its target argument
    order,        \* list the for loop of setup() iterates over
    idx,          \* position of that loop in order (1-based)
    inProgress,   \* modules whose setup() has been called and has not returned
    err,          \* exception being handled by the except clause (NoErr: none)
    invoked,      \* history: setup actions called in this invocation, in call order
    marked,       \* history: names passed to mark_setup in this invocation
    original,     \* history: first exception raised in this invocation
    logs,         \* history: number of collect_logs() calls in this invocation
    logErr,       \* history: exception collect_logs() ended with (NoErr: none)
    result,       \* what reached the caller: Pending, Ok or an exception
    out,          \* what the invocation printed (plan: the order; list-modules: names)
    configured,   \* history: modules whose configure_tempest was called, in order
    selection,    \* test: the --regex and --exclude-regex handed to tempest
    arg,          \* concurrency_cb: the --concurrency argument, as its characters
    cpus,         \* concurrency_cb: what cpu_count() answered, 0 while not asked
    ret,          \* concurrency_cb: what the last call returned or raised
    objects,      \* the mapping objects of the process, by reference
    os_environ,   \* the reference the name os.environ holds
    os_cwd,       \* the working directory of the process
    s_cmd,        \* system: argument cmd
    s_env,        \* system: argument env, empty when None or {}
    s_cwd,        \* system: argument cwd, empty when None or ""
    saved_env,    \* system: local saved_env, a reference
    saved_cwd,    \* system: local saved_cwd
    exit_code,    \* system: local exit_code
    pending,      \* system: whether an exception is propagating
    spc,          \* system: position in the function
    oscalls,      \* system: the os.chdir and os.system calls of the last call
    env0,         \* system: contents of the environment when it was called
    cwd0,         \* system: working directory when it was called
    sret          \* system: what the last call returned or raised

vars == <<present, deps, hasSetup, markers, before, pc, cmd, target, order, idx,
          inProgress, err, invoked, marked, original, logs, logErr, result, out,
          configured, selection, arg, cpus, ret, objects, os_environ, os_cwd,
          s_cmd, s_env, s_cwd, saved_env, saved_cwd, exit_code, pending, spc,
          oscalls, env0, cwd0, sret>>

registry == <<present, deps, hasSetup>>

\* the state of the helpers of core/utils.py that the commands do not touch
argvars == <<arg, cpus, ret>>

sysvars == <<objects, os_environ, os_cwd, s_cmd, s_env, s_cwd, saved_env,
             saved_cwd, exit_code, pending, spc, oscalls, env0, cwd0, sret>>

util == <<argvars, sysvars>>

\* what no step of a running command changes
fixed == <<present, deps, hasSetup, before, util>>

\* the state of the commands, which the helpers of core/utils.py do not touch
driver == <<present, deps, hasSetup, markers, before, pc, cmd, target, order,
            idx, inProgress, err, invoked, marked, original, logs, logErr,
            result, out, configured, selection>>

----------------------------------------------------------------------------
(* Bounds of the model *)

\* number of dependency edges of a registry the driver is run on
MaxDeps == 2

\* number of dependency edges of a registry the resolver is run on
MaxEdges == 3

\* length of a --concurrency argument
MaxLen == 4

\* number of processing units of the machine
MaxCpus == 7

----------------------------------------------------------------------------
(* Names and values *)

\* every module name, in lexicographic order
Names == <<"keystone", "magnum", "mysql", "octavia">>

Universe == {Names[i] : i \in 1..Len(Names)}

\* the registry the driver is run on; "octavia" is the optional dependency
\* that is not installed
DriverModules == {"keystone", "magnum", "mysql"}

\* target: typing.Optional[str] = None
None == "None"

\* a target name that no module has
NoSuch == "nosuch"

Targets == Universe \cup {None, NoSuch}

NoErr == [kind |-> "none", who |-> {}]

Exc(kind, who) == [kind |-> kind, who |-> who]

Pending == [kind |-> "pending", who |-> {}]

Ok == [kind |-> "ok", who |-> {}]

Range(s) == {s[i] : i \in 1..Len(s)}

----------------------------------------------------------------------------
(* Dependency resolver (regress_stack.core.modules, from the specification) *)

\* DEPENDENCIES of module m
required(m) == {e[2] : e \in {x \in deps : x[1] = m /\ x[3] = "req"}}

\* OPTIONAL_DEPENDENCIES of module m
optional(m) == {e[2] : e \in {x \in deps : x[1] = m /\ x[3] = "opt"}}

\* the elements of S in the stable (lexicographic) visiting order
Sorted(S) == SelectSeq(Names, LAMBDA n : n \in S)

RECURSIVE Reachable(_)
\* every module reachable from S via required or present optional edges
Reachable(S) ==
    LET next == S \cup {d \in present :
                          \E m \in S : d \in required(m) \cup optional(m)}
    IN  IF next = S THEN S ELSE Reachable(next)

\* step 2: the modules the graph is restricted to
Scope(t) == IF t = None THEN present ELSE Reachable({t})

\* the members of the cycle closed by revisiting m: the path from m onwards
CycleMembers(path, m) ==
    {path[i] : i \in {j \in 1..Len(path) : \E k \in 1..j : path[k] = m}}

RECURSIVE Visit(_, _, _)
RECURSIVE VisitAll(_, _, _)
\* step 3: depth-first visit of m; st = [out, path, err]
Visit(m, scope, st) ==
    IF st.err # NoErr THEN st
    ELSE IF m \in Range(st.out) THEN st
    ELSE IF m \in Range(st.path)
         THEN [st EXCEPT !.err = Exc("CyclicDependency", CycleMembers(st.path, m))]
    ELSE LET todo == Sorted(required(m)) \o Sorted(optional(m) \cap scope)
             st1  == VisitAll(todo, scope, [st EXCEPT !.path = Append(@, m)])
         IN  IF st1.err # NoErr THEN st1
             ELSE [st1 EXCEPT !.out  = Append(@, m),
                              !.path = SubSeq(@, 1, Len(@) - 1)]

VisitAll(ms, scope, st) ==
    IF ms = << >> THEN st
    ELSE VisitAll(Tail(ms), scope, Visit(Head(ms), scope, st))

\* resolve(all_modules, target): [order, err]; err # NoErr means it raised
get_execution_order(t) ==
    IF t # None /\ t \notin present
    THEN [order |-> << >>, err |-> Exc("UnknownTarget", {t})]
    ELSE LET scope == Scope(t)
             st == VisitAll(Sorted(scope), scope,
                            [out |-> << >>, path |-> << >>, err |-> NoErr])
         IN  IF st.err # NoErr THEN [order |-> << >>, err |-> st.err]
             ELSE [order |-> st.out, err |-> NoErr]

\* modules(): the names of the registered modules
modules == Sorted(present)

----------------------------------------------------------------------------
(* Registries *)

RECURSIVE SubsetsUpTo(_, _)
\* the subsets of S with at most k elements
SubsetsUpTo(S, k) ==
    IF k = 0 THEN {{}}
    ELSE LET P == SubsetsUpTo(S, k - 1)
         IN  P \cup {T \cup {e} : T \in P, e \in S}

\* a required dependency is a registered module; an optional one may be absent
Edges(P) == {<<m, d, "req">> : m \in P, d \in P}
            \cup {<<m, d, "opt">> : m \in P, d \in Universe}

----------------------------------------------------------------------------
(* Completion store (core/utils.py) *)

\* mutant of mark_setup: the store is rewritten with the one name
mark_setup_overwrite(name) == {name}

\* utils.mark_setup(name): touch <name>.setup
mark_setup(name) == markers \cup {name}

\* utils.is_setup_done(name)
is_setup_done(name) == name \in markers

----------------------------------------------------------------------------
(* Execution driver (__main__.py) *)

\* the variables a command that runs no setup action leaves alone
NoSetupRun == UNCHANGED <<order, idx, inProgress, invoked, marked>>

\* the variables only test() writes
NoTestRun == UNCHANGED <<configured, selection>>

\* mutant of plan_order: the target is not passed on
plan_order_all(t) == get_execution_order(None)

\* the order plan(target) prints
plan_order(t) == get_execution_order(t)

\* plan(target)
plan(t) ==
    /\ pc = "start"
    /\ cmd' = "plan"
    /\ target' = t
    /\ LET r == plan_order(t)
       IN  /\ out' = r.order
           /\ original' = r.err
           /\ result' = IF r.err = NoErr THEN Ok ELSE r.err
    /\ pc' = "exit"
    /\ NoSetupRun
    /\ NoTestRun
    /\ UNCHANGED <<fixed, logErr, markers, err, logs>>

\* mutant of list_modules_check: the registry is printed unchecked
list_modules_unchecked == [order |-> modules, err |-> NoErr]

\* the check list_modules() makes before it prints
list_modules_check == get_execution_order(None)

\* list_modules()
list_modules ==
    /\ pc = "start"
    /\ cmd' = "list-modules"
    /\ target' = None
    /\ LET r == list_modules_check
       IN  /\ out' = IF r.err = NoErr THEN modules ELSE << >>
           /\ original' = r.err
           /\ result' = IF r.err = NoErr THEN Ok ELSE r.err
    /\ pc' = "exit"
    /\ NoSetupRun
    /\ NoTestRun
    /\ UNCHANGED <<fixed, logErr, markers, err, logs>>

\* mutant of wants_setup: a module whose marker exists is skipped
wants_setup_skip_done(m) == hasSetup[m] /\ ~is_setup_done(m)

\* line 32: getattr(mod.module, "setup", None)
wants_setup(m) == hasSetup[m]

\* setup(target), lines 30-31: enter the try block and resolve the order
setup_call(t) ==
    /\ pc = "start"
    /\ cmd' = "setup"
    /\ target' = t
    /\ LET r == get_execution_order(t)
       IN  /\ order' = r.order
           /\ err' = r.err
           /\ original' = r.err
           /\ pc' = IF r.err = NoErr THEN "loop" ELSE "except"
    /\ idx' = 1
    /\ NoTestRun
    /\ UNCHANGED <<fixed, logErr, markers, inProgress, invoked, marked, logs, result, out>>

\* lines 31-34: the for loop reaches the next module and calls its setup()
setup_next ==
    /\ pc = "loop"
    /\ IF idx > Len(order)
       THEN /\ pc' = "exit"
            /\ result' = Ok
            /\ UNCHANGED <<idx, inProgress, invoked>>
       ELSE IF wants_setup(order[idx])
       THEN /\ pc' = "running"
            /\ inProgress' = inProgress \cup {order[idx]}
            /\ invoked' = Append(invoked, order[idx])
            /\ UNCHANGED <<idx, result>>
       ELSE /\ idx' = idx + 1
            /\ UNCHANGED <<pc, inProgress, invoked, result>>
    /\ NoTestRun
    /\ UNCHANGED <<fixed, logErr, markers, cmd, target, order, err, marked, original,
                   logs, out>>

\* mutant of setup_returns: the loop does not move on to the next module
setup_returns_stay ==
    /\ pc = "running"
    /\ inProgress' = inProgress \ {order[idx]}
    /\ markers' = mark_setup(order[idx])
    /\ marked' = marked \cup {order[idx]}
    /\ pc' = "loop"
    /\ NoTestRun
    /\ UNCHANGED <<fixed, logErr, cmd, target, order, idx, err, invoked, original,
                   logs, result, out>>

\* lines 34-35: setup() returns and the module is marked
setup_returns ==
    /\ pc = "running"
    /\ inProgress' = inProgress \ {order[idx]}
    /\ markers' = mark_setup(order[idx])
    /\ marked' = marked \cup {order[idx]}
    /\ idx' = idx + 1
    /\ pc' = "loop"
    /\ NoTestRun
    /\ UNCHANGED <<fixed, logErr, cmd, target, order, err, invoked, original, logs,
                   result, out>>

\* mutant of setup_raises: the error is logged and the loop goes on
setup_raises_continue ==
    /\ pc = "running"
    /\ inProgress' = inProgress \ {order[idx]}
    /\ original' = IF original = NoErr
                   THEN Exc("SetupActionFailure", {order[idx]}) ELSE original
    /\ idx' = idx + 1
    /\ pc' = "loop"
    /\ NoTestRun
    /\ UNCHANGED <<fixed, logErr, markers, cmd, target, order, err, invoked,
                   marked, logs, result, out>>

\* mutant of setup_raises: the module is marked although its setup() raised
setup_raises_marks ==
    /\ pc = "running"
    /\ inProgress' = inProgress \ {order[idx]}
    /\ markers' = mark_setup(order[idx])
    /\ marked' = marked \cup {order[idx]}
    /\ err' = Exc("SetupActionFailure", {order[idx]})
    /\ original' = Exc("SetupActionFailure", {order[idx]})
    /\ pc' = "except"
    /\ NoTestRun
    /\ UNCHANGED <<fixed, logErr, cmd, target, order, idx, invoked, logs, result,
                   out>>

\* lines 34, 36-37: setup() raises; the except clause catches it
setup_raises ==
    /\ pc = "running"
    /\ inProgress' = inProgress \ {order[idx]}
    /\ err' = Exc("SetupActionFailure", {order[idx]})
    /\ original' = Exc("SetupActionFailure", {order[idx]})
    /\ pc' = "except"
    /\ NoTestRun
    /\ UNCHANGED <<fixed, logErr, markers, cmd, target, order, idx, invoked, marked,
                   logs, result, out>>

\* LOGS of module m (octavia.py:22, magnum.py:25): one directory per module
LOGS(m) == <<m>>

\* collect_logs(): the exceptions it can end with (NoErr: it returns).
\* get_execution_order raises on a cyclic registry; _output_log_file raises
\* on an entry it cannot open or read; utils.run raises when journalctl fails.
collect_logs ==
    LET r == get_execution_order(None)
    IN  IF r.err # NoErr THEN {r.err}
        ELSE {NoErr, Exc("CalledProcessError", {"journalctl"})}
             \cup {Exc("OSError", {"log"}) :
                     m \in {x \in Range(r.order) : LOGS(x) # << >>}}

\* lines 36-39: LOG.error, collect_logs(), raise
setup_except ==
    /\ pc = "except"
    /\ cmd = "setup"
    /\ \E e \in collect_logs :
          /\ logErr' = e
          /\ result' = IF e = NoErr THEN err ELSE e
    /\ logs' = logs + 1
    /\ pc' = "exit"
    /\ NoSetupRun
    /\ NoTestRun
    /\ UNCHANGED <<fixed, markers, cmd, target, err, original, out>>

----------------------------------------------------------------------------
(* Test phase (__main__.py, test) *)

NoSelection == [regex |-> << >>, exclude |-> << >>]

\* line 102: getattr(mod.module, "configure_tempest", None)
hasConfigure(m) == m \in {"magnum", "octavia"}

\* TEST_INCLUDE_REGEXES (magnum.py:36, octavia.py:38), [] when not defined;
\* keystone stands for a module that defines inclusion filters only, mysql
\* for one that defines neither
TEST_INCLUDE_REGEXES(m) ==
    CASE m = "magnum"  -> << <<"magnum_tempest_plugin">> >>
      [] m = "octavia" -> << <<"octavia.SIP">>, <<"octavia.source_ip_port">> >>
      [] m = "keystone" -> << <<"keystone_tempest_plugin">> >>
      [] OTHER -> << >>

\* TEST_EXCLUDE_REGEXES (magnum.py:37, octavia.py:43), [] when not defined
TEST_EXCLUDE_REGEXES(m) ==
    CASE m = "magnum"  -> << <<"ClusterTest.zero_nodes">>, <<"ClusterTest.sign">> >>
      [] m = "octavia" -> << <<"PROXY">>, <<"HTTP">> >>
      [] OTHER -> << >>

RECURSIVE join(_, _)
\* sep.join(strs): a string is the sequence of its tokens
join(sep, strs) ==
    IF strs = << >> THEN << >>
    ELSE IF Len(strs) = 1 THEN strs[1]
    ELSE strs[1] \o <<sep>> \o join(sep, Tail(strs))

\* mutant of test_scope: the marker is not looked at
test_scope_all(ord) == ord

\* lines 98-101: the modules of the order whose marker exists
test_scope(ord) == SelectSeq(ord, LAMBDA m : is_setup_done(m))

\* lines 105-110: the modules that contribute their filters
test_regexes(ord) ==
    SelectSeq(test_scope(ord), LAMBDA m : TEST_INCLUDE_REGEXES(m) # << >>)

\* lines 113-128: the combined selection
build_selection(ms) ==
    [regex   |-> join("|", << <<"smoke">> >> \o
                      [i \in 1..Len(ms) |-> join("|", TEST_INCLUDE_REGEXES(ms[i]))]),
     exclude |-> join("|",
                      [i \in 1..Len(ms) |-> join("|", TEST_EXCLUDE_REGEXES(ms[i]))])]

\* test(concurrency), lines 70-147: up to the tempest run
test_call ==
    /\ pc = "start"
    /\ cmd' = "test"
    /\ target' = None
    /\ LET r == get_execution_order(None)
       IN  IF r.err # NoErr
           THEN /\ original' = r.err
                /\ result' = r.err
                /\ pc' = "exit"
                /\ UNCHANGED <<configured, selection>>
           ELSE /\ configured' = SelectSeq(test_scope(r.order), hasConfigure)
                /\ selection' = build_selection(test_regexes(r.order))
                /\ pc' = "failing"
                /\ UNCHANGED <<original, result>>
    /\ NoSetupRun
    /\ UNCHANGED <<fixed, logErr, markers, err, logs, out>>

\* lines 149-152: stestr failing --list returns, or raises CalledProcessError
test_failing ==
    /\ pc = "failing"
    /\ \/ /\ result' = Ok
          /\ pc' = "exit"
          /\ UNCHANGED <<err, original>>
       \/ /\ err' = Exc("CalledProcessError", {"stestr"})
          /\ original' = Exc("CalledProcessError", {"stestr"})
          /\ pc' = "except"
          /\ UNCHANGED result
    /\ NoSetupRun
    /\ NoTestRun
    /\ UNCHANGED <<fixed, logErr, markers, cmd, target, logs, out>>

\* lines 152-154: collect_logs(), raise
test_except ==
    /\ pc = "except"
    /\ cmd = "test"
    /\ \E e \in collect_logs :
          /\ logErr' = e
          /\ result' = IF e = NoErr THEN err ELSE e
    /\ logs' = logs + 1
    /\ pc' = "exit"
    /\ NoSetupRun
    /\ NoTestRun
    /\ UNCHANGED <<fixed, markers, cmd, target, err, original, out>>

\* main(): the command line is invoked again, in a new process; only the
\* registry and the marker files outlive the last one
main ==
    /\ pc = "exit"
    /\ pc' = "start"
    /\ cmd' = "none"
    /\ target' = None
    /\ order' = << >>
    /\ idx' = 1
    /\ inProgress' = {}
    /\ err' = NoErr
    /\ invoked' = << >>
    /\ marked' = {}
    /\ original' = NoErr
    /\ logs' = 0
    /\ result' = Pending
    /\ out' = << >>
    /\ configured' = << >>
    /\ selection' = NoSelection
    /\ before' = markers
    /\ logErr' = NoErr
    /\ UNCHANGED <<registry, markers, util>>

----------------------------------------------------------------------------
(* Argument helper (core/utils.py, concurrency_cb) *)

\* the characters an argument is made of
Chars == {"a", "u", "t", "o", "0", "1", "+", "-", "_", " "}

DigitVal == [c \in {"0", "1"} |-> IF c = "0" THEN 0 ELSE 1]

IsDigit(c) == c \in DOMAIN DigitVal

NoRet == [kind |-> "none", val |-> 0]

RECURSIVE lstrip(_)
\* the string without its leading whitespace
lstrip(s) == IF s # << >> /\ s[1] = " " THEN lstrip(Tail(s)) ELSE s

RECURSIVE rstrip(_)
\* the string without its trailing whitespace
rstrip(s) ==
    IF s # << >> /\ s[Len(s)] = " " THEN rstrip(SubSeq(s, 1, Len(s) - 1)) ELSE s

RECURSIVE digits_value(_, _)
\* the digits of s read left to right, "_" skipped, onto the value acc
digits_value(s, acc) ==
    IF s = << >> THEN acc
    ELSE IF s[1] = "_" THEN digits_value(Tail(s), acc)
    ELSE digits_value(Tail(s), 10 * acc + DigitVal[s[1]])

\* s is digits with single underscores between them
digits_ok(s) ==
    /\ s # << >>
    /\ \A i \in 1..Len(s) : IsDigit(s[i]) \/ s[i] = "_"
    /\ IsDigit(s[1])
    /\ IsDigit(s[Len(s)])
    /\ \A i \in 1..(Len(s) - 1) : ~(s[i] = "_" /\ s[i + 1] = "_")

\* int(arg): whitespace is stripped, one sign may lead, then the digits
int(s) ==
    LET t    == rstrip(lstrip(s))
        sign == t # << >> /\ t[1] \in {"+", "-"}
        body == IF sign THEN Tail(t) ELSE t
        v    == digits_value(body, 0)
    IN  IF digits_ok(body)
        THEN [kind |-> "int", val |-> IF sign /\ t[1] = "-" THEN 0 - v ELSE v]
        ELSE [kind |-> "ValueError", val |-> 0]

\* mutant of ceil_third: the division rounds down
floor_third(n) == n \div 3

\* line 228: math.ceil(n / 3)
ceil_third(n) == (n + 2) \div 3

\* concurrency_cb(arg) on a machine of n processing units
concurrency_cb(n) ==
    /\ ret = NoRet
    /\ IF arg = <<"a", "u", "t", "o">>
       THEN /\ cpus' = n
            /\ ret' = [kind |-> "int", val |-> ceil_third(n)]
       ELSE /\ cpus' = cpus
            /\ ret' = int(arg)
    /\ UNCHANGED <<driver, arg, sysvars>>

----------------------------------------------------------------------------
(* Command helper (core/utils.py, system) *)

\* the mapping objects that exist: the one os.environ names at start
Refs == {"environ"}

NoRef == "null"

EnvKeys == {"a", "b"}

EnvVals == {"A", "B"}

\* the mappings of variable names to values
Dicts == UNION {[K -> EnvVals] : K \in SUBSET EnvKeys}

\* a path is its components, an absolute one starts with "/"
IsAbs(p) == p # << >> /\ p[1] = "/"

StartDirs == {<<"/", "root">>, <<"/", "srv">>}

\* cwd arguments: none, the relative directory test() passes, an absolute one
CwdArgs == {<< >>, <<"mycloud01">>, <<"/", "tmp">>}

Cmds == {<<"tempest", "run">>}

\* what os.waitstatus_to_exitcode may answer
ExitCodes == {0, 1}

Returned(c) == [kind |-> "return", val |-> c]

Raised == [kind |-> "raise", val |-> 0]

\* d.update(e)
update(d, e) ==
    [k \in DOMAIN d \cup DOMAIN e |-> IF k \in DOMAIN e THEN e[k] ELSE d[k]]

\* the directory os.chdir(p) enters; it is taken to exist
chdir(p) == IF IsAbs(p) THEN p ELSE os_cwd \o p

Call(fn, a) == [fn |-> fn, arg |-> a]

\* system is not running and has not run
InitSystem ==
    /\ os_environ = "environ"
    /\ s_cmd = << >>
    /\ s_env = << >>
    /\ s_cwd = << >>
    /\ saved_env = NoRef
    /\ saved_cwd = << >>
    /\ exit_code = 0
    /\ pending = FALSE
    /\ spc = "idle"
    /\ oscalls = << >>
    /\ env0 = << >>
    /\ cwd0 = << >>
    /\ sret = NoRet

\* lines 91-98: the call; saved_env is the object os.environ names, no copy
system_enter(c, e, d) ==
    /\ spc = "idle"
    /\ s_cmd' = c
    /\ s_env' = e
    /\ s_cwd' = d
    /\ exit_code' = 0 - 1
    /\ saved_env' = os_environ
    /\ saved_cwd' = os_cwd
    /\ pending' = FALSE
    /\ oscalls' = << >>
    /\ env0' = objects[os_environ]
    /\ cwd0' = os_cwd
    /\ sret' = NoRet
    /\ spc' = "try"
    /\ UNCHANGED <<driver, argvars, objects, os_environ, os_cwd>>

\* lines 105-109: env is written into the environment, cwd is entered
system_try ==
    /\ spc = "try"
    /\ objects' = IF s_env # << >>
                  THEN [objects EXCEPT ![os_environ] = update(@, s_env)]
                  ELSE objects
    /\ IF s_cwd # << >>
       THEN /\ os_cwd' = chdir(s_cwd)
            /\ oscalls' = Append(oscalls, Call("chdir", s_cwd))
       ELSE UNCHANGED <<os_cwd, oscalls>>
    /\ spc' = "cmd"
    /\ UNCHANGED <<driver, argvars, os_environ, s_cmd, s_env, s_cwd, saved_env,
                   saved_cwd, exit_code, pending, env0, cwd0, sret>>

\* line 110: os.system(cmd) answers a status, or raises
system_cmd(outcome) ==
    /\ spc = "cmd"
    /\ oscalls' = Append(oscalls, Call("system", s_cmd))
    /\ IF outcome = Raised
       THEN /\ pending' = TRUE
            /\ UNCHANGED exit_code
       ELSE /\ exit_code' = outcome.val
            /\ UNCHANGED pending
    /\ spc' = "finally"
    /\ UNCHANGED <<driver, argvars, objects, os_environ, os_cwd, s_cmd, s_env,
                   s_cwd, saved_env, saved_cwd, env0, cwd0, sret>>

\* mutant of finally_cwd: the directory is left where cmd ran
finally_cwd_stay == [cwd |-> os_cwd, calls |-> oscalls]

\* lines 114-115: back to the saved directory
finally_cwd ==
    IF s_cwd # << >>
    THEN [cwd |-> chdir(saved_cwd), calls |-> Append(oscalls, Call("chdir", saved_cwd))]
    ELSE [cwd |-> os_cwd, calls |-> oscalls]

\* lines 111-117: the finally clause, then the return or the exception
system_finally ==
    /\ spc = "finally"
    /\ os_environ' = IF s_env # << >> THEN saved_env ELSE os_environ
    /\ os_cwd' = finally_cwd.cwd
    /\ oscalls' = finally_cwd.calls
    /\ sret' = IF pending THEN Raised ELSE Returned(exit_code)
    /\ pending' = FALSE
    /\ spc' = "idle"
    /\ UNCHANGED <<driver, argvars, objects, s_cmd, s_env, s_cwd, saved_env,
                   saved_cwd, exit_code, env0, cwd0>>

----------------------------------------------------------------------------
(* Specifications *)

InitDriver ==
    /\ markers = {}
    /\ before = {}
    /\ logErr = NoErr
    /\ pc = "start"
    /\ cmd = "none"
    /\ target = None
    /\ order = << >>
    /\ idx = 1
    /\ inProgress = {}
    /\ err = NoErr
    /\ invoked = << >>
    /\ marked = {}
    /\ original = NoErr
    /\ logs = 0
    /\ result = Pending
    /\ out = << >>
    /\ configured = << >>
    /\ selection = NoSelection

\* no helper has been called
InitUtil ==
    /\ arg = << >>
    /\ cpus = 0
    /\ ret = NoRet
    /\ objects = [r \in Refs |-> << >>]
    /\ os_cwd = <<"/", "root">>
    /\ InitSystem

\* the resolver on every registry of up to MaxEdges dependency edges
InitResolve ==
    /\ present \in (SUBSET Universe) \ {{}}
    /\ deps \in SubsetsUpTo(Edges(present), MaxEdges)
    /\ hasSetup = [m \in present |-> TRUE]
    /\ InitDriver
    /\ InitUtil

NextResolve ==
    \/ \E t \in Targets : plan(t)
    \/ list_modules

SpecResolve == InitResolve /\ [][NextResolve]_vars

\* the driver on every registry of the three modules with up to MaxDeps edges
Init ==
    /\ present = DriverModules
    /\ deps \in SubsetsUpTo(Edges(present), MaxDeps)
    /\ hasSetup \in [present -> BOOLEAN]
    /\ InitDriver
    /\ InitUtil

Next ==
    \/ \E t \in Targets : plan(t)
    \/ list_modules
    \/ \E t \in Targets : setup_call(t)
    \/ setup_next
    \/ setup_returns
    \/ setup_raises
    \/ setup_except
    \/ test_call
    \/ test_failing
    \/ test_except
    \/ main

Spec == Init /\ [][Next]_vars

RECURSIVE Strings(_)
\* the strings of at most n characters
Strings(n) ==
    IF n = 0 THEN {<< >>}
    ELSE LET S == Strings(n - 1)
         IN  S \cup {Append(x, c) : x \in S, c \in Chars}

\* concurrency_cb on every argument of up to MaxLen characters
InitArgs ==
    /\ present = DriverModules
    /\ deps = {}
    /\ hasSetup = [m \in present |-> TRUE]
    /\ InitDriver
    /\ arg \in Strings(MaxLen)
    /\ cpus = 0
    /\ ret = NoRet
    /\ objects = [r \in Refs |-> << >>]
    /\ os_cwd = <<"/", "root">>
    /\ InitSystem

NextArgs == \E n \in 1..MaxCpus : concurrency_cb(n)

SpecArgs == InitArgs /\ [][NextArgs]_vars

\* system called again and again, from every environment and directory
InitSys ==
    /\ present = DriverModules
    /\ deps = {}
    /\ hasSetup = [m \in present |-> TRUE]
    /\ InitDriver
    /\ arg = << >>
    /\ cpus = 0
    /\ ret = NoRet
    /\ objects \in [Refs -> Dicts]
    /\ os_cwd \in StartDirs
    /\ InitSystem

NextSys ==
    \/ \E c \in Cmds, e \in Dicts, d \in CwdArgs : system_enter(c, e, d)
    \/ system_try
    \/ \E o \in {Returned(x) : x \in ExitCodes} \cup {Raised} : system_cmd(o)
    \/ system_finally

SpecSys == InitSys /\ [][NextSys]_vars

----------------------------------------------------------------------------
(* Properties *)

\* the setup actions of a list of modules
SetupsOf(ms) == SelectSeq(ms, LAMBDA m : hasSetup[m])

\* the module whose setup action raised in this invocation, if any
Failed == IF original.kind = "SetupActionFailure" THEN original.who ELSE {}

\* the position of module m in the resolved order (0: not in it)
PosInOrder(m) ==
    IF m \in Range(order) THEN CHOOSE j \in 1..Len(order) : order[j] = m ELSE 0

\* the modules after the failed one in the resolved order
AfterFailed ==
    {order[k] : k \in {j \in 1..Len(order) :
                         \E f \in Failed : PosInOrder(f) # 0 /\ PosInOrder(f) < j}}

NoDuplicates(ms) == \A i, j \in 1..Len(ms) : ms[i] = ms[j] => i = j

\* C1: in setup, once a module's setup action has raised, the failing module
\* is the last one whose setup action was invoked: no setup action of a
\* module later in the resolved order is invoked in that run.
C1_StopsAtFirstFailure ==
    (cmd = "setup" /\ Failed # {}) =>
        /\ invoked # << >>
        /\ Failed = {invoked[Len(invoked)]}
        /\ inProgress = {}
        /\ pc \in {"except", "exit"}
        /\ AfterFailed \cap Range(invoked) = {}

\* a run of setup has ended on a failed setup action, and a module with a
\* setup action comes after the failed one in the order
C1_Witness ==
    /\ cmd = "setup"
    /\ pc = "exit"
    /\ Failed # {}
    /\ \E m \in AfterFailed : hasSetup[m]

\* C2: setup invokes the setup actions one at a time in the resolved order:
\* at most one is in progress, the actions invoked so far are those of a
\* prefix of the order (each once), the one in progress started after every
\* earlier one had returned successfully, and a run in which nothing failed
\* has invoked the setup action of every module of the order that has one.
C2_StrictlySequential ==
    cmd = "setup" =>
        /\ Cardinality(inProgress) <= 1
        /\ NoDuplicates(invoked)
        /\ \E k \in 0..Len(order) : invoked = SetupsOf(SubSeq(order, 1, k))
        /\ \A m \in inProgress :
              /\ m = invoked[Len(invoked)]
              /\ \A i \in 1..(Len(invoked) - 1) : invoked[i] \in marked
        /\ (pc = "exit" /\ original = NoErr) => invoked = SetupsOf(order)

\* a run of setup in which nothing failed has run at least two setup actions
C2_Witness ==
    /\ cmd = "setup"
    /\ pc = "exit"
    /\ result = Ok
    /\ Len(invoked) >= 2

\* C3: during setup the markers recorded in this run are exactly those of the
\* modules whose own setup action has returned without error: a module is
\* marked as soon as its action has returned (so before the next one starts),
\* and the module whose action raised, and every module after it in the
\* order, is not marked by this run.
C3_MarkerAfterOwnSuccess ==
    cmd = "setup" =>
        /\ marked = Range(invoked) \ (inProgress \cup Failed)
        /\ markers = before \cup marked
        /\ marked \cap (Failed \cup AfterFailed) = {}

\* a run of setup has marked a module and then failed on a later one, with
\* a further module after the failed one
C3_Witness ==
    /\ cmd = "setup"
    /\ pc = "exit"
    /\ Failed # {}
    /\ marked # {}
    /\ AfterFailed # {}

\* C4: no step of plan, setup, test or list-modules removes a marker.
C4_MarkersNeverRemoved == [][markers \subseteq markers']_vars

\* a run of setup has failed after it had marked a module, in an environment
\* that held a marker already: all of them are still there
C4_Witness ==
    /\ cmd = "setup"
    /\ pc = "exit"
    /\ Failed # {}
    /\ marked # {}
    /\ before \ marked # {}
    /\ before \cup marked \subseteq markers

\* C5: when a setup action fails, log collection has been triggered by the
\* time setup returns to its caller, and the error that reaches the caller
\* is the error the setup action raised.
C5_OriginalErrorAfterLogs ==
    (cmd = "setup" /\ pc = "exit" /\ Failed # {}) =>
        /\ logs = 1
        /\ result = original

\* C6: a failure inside log collection is swallowed: the error that reaches
\* the caller of setup is still the error the setup action raised.
C6_LogFailureSwallowed ==
    (cmd = "setup" /\ pc = "exit" /\ Failed # {} /\ logErr # NoErr) =>
        result = original

\* C7: when the resolver fails for the requested target, setup invokes no
\* setup action, records no marker, and the resolver's error reaches the
\* caller.
C7_ResolverErrorNoExecution ==
    (cmd = "setup" /\ pc = "exit"
       /\ original.kind \in {"UnknownTarget", "CyclicDependency"}) =>
        /\ invoked = << >>
        /\ marked = {}
        /\ markers = before
        /\ result = original

\* the registered modules m depends on, required or optional
DependsOn(m) == {e[2] : e \in {x \in deps : x[1] = m}} \cap present

RECURSIVE DepsWithin(_, _)
\* the modules reached from m along at most n dependency edges
DepsWithin(m, n) ==
    IF n = 0 THEN {}
    ELSE DependsOn(m) \cup UNION {DepsWithin(d, n - 1) : d \in DependsOn(m)}

\* the transitive dependency closure of m
Closure(m) == DepsWithin(m, Cardinality(present))

\* the modules a request for target t is about
Requested(t) == IF t = None THEN present ELSE Closure(t) \cup {t}

OnCycle(m) == m \in Closure(m)

Acyclic == \A m \in present : ~OnCycle(m)

\* C8: on an acyclic registry, for a registered target M, the order that
\* plan(M) obtains from the resolver holds exactly M's transitive dependency
\* closure (required, and optional when registered) and M, each once, every
\* dependency before its dependent, and M last.
C8_ResolveClosureOrder ==
    (cmd = "plan" /\ pc = "exit" /\ target \in present /\ Acyclic) =>
        /\ result = Ok
        /\ Range(out) = Closure(target) \cup {target}
        /\ NoDuplicates(out)
        /\ \A i, j \in 1..Len(out) : out[j] \in DependsOn(out[i]) => j < i
        /\ out[Len(out)] = target

\* plan has resolved a target with a required and an optional registered
\* dependency, leaving an unrelated module out
C8_Witness ==
    /\ cmd = "plan"
    /\ pc = "exit"
    /\ target \in present
    /\ Acyclic
    /\ Len(out) >= 3
    /\ present \ Range(out) # {}
    /\ \E e \in deps : e[3] = "opt" /\ e[1] \in Range(out) /\ e[2] \in Range(out)
    /\ \E e \in deps : e[3] = "req" /\ e[1] \in Range(out)

\* C9: when the modules requested (the whole registry for list-modules and
\* for plan without target, the target's closure otherwise) hold a cycle,
\* a self-dependency included, the resolver raises CyclicDependency naming
\* modules of a cycle, and nothing is returned or printed.
C9_CycleRaises ==
    (cmd \in {"plan", "list-modules"} /\ pc = "exit"
       /\ (target = None \/ target \in present)
       /\ \E m \in Requested(target) : OnCycle(m)) =>
        /\ result.kind = "CyclicDependency"
        /\ result.who # {}
        /\ \A m \in result.who : OnCycle(m)
        /\ out = << >>

\* list-modules has refused a registry with a cycle of three modules
C9_Witness ==
    /\ cmd = "list-modules"
    /\ pc = "exit"
    /\ result.kind = "CyclicDependency"
    /\ Cardinality(result.who) = 3
    /\ out = << >>

\* C10 as stated: setup never invokes the setup action of a module whose
\* marker existed when the run started.
C10_SkipsCompleted ==
    cmd = "setup" => Range(invoked) \cap before = {}

\* C10 as amended: setup does not consult the markers: every module with a
\* setup action that the loop has passed was invoked, also when its marker
\* existed when the run started.
C10_ReplayInvokesAgain ==
    cmd = "setup" =>
        \A j \in 1..Len(order) :
            (j < idx /\ hasSetup[order[j]] /\ order[j] \in before)
                => order[j] \in Range(invoked)

\* a run of setup has invoked, and marked again, a module whose marker
\* existed when the run started
C10_Witness ==
    /\ cmd = "setup"
    /\ pc = "exit"
    /\ result = Ok
    /\ Range(invoked) \cap before \cap marked # {}

\* the filter expressions module m declares
FilterTokens(m) ==
    UNION {Range(TEST_INCLUDE_REGEXES(m)[i]) : i \in 1..Len(TEST_INCLUDE_REGEXES(m))}
    \cup UNION {Range(TEST_EXCLUDE_REGEXES(m)[i]) : i \in 1..Len(TEST_EXCLUDE_REGEXES(m))}

\* C11: in the test phase a module whose marker is absent is out of the test
\* scope: its configure_tempest is not called, and none of its inclusion or
\* exclusion filters is in the selection handed to the test harness.
C11_UnmarkedExcludedFromTests ==
    cmd = "test" =>
        \A m \in Universe :
            m \notin markers =>
                /\ m \notin Range(configured)
                /\ FilterTokens(m) \cap Range(selection.regex) = {}
                /\ FilterTokens(m) \cap Range(selection.exclude) = {}

\* a test run has finished in which a registered module with configure_tempest
\* and filters had no marker, while a module with a marker was configured or
\* contributed its filters
C11_Witness ==
    /\ cmd = "test"
    /\ pc = "exit"
    /\ result = Ok
    /\ \E m \in present \ markers :
          hasConfigure(m) /\ TEST_INCLUDE_REGEXES(m) # << >>
    /\ \E m \in markers : FilterTokens(m) \cap Range(selection.regex) # {}

\* the set-up modules that contribute inclusion filters
Contributing == {m \in present \cap markers : TEST_INCLUDE_REGEXES(m) # << >>}

\* the exclusion filters of the contributing modules
ContributedExcludes ==
    UNION {UNION {Range(TEST_EXCLUDE_REGEXES(m)[i]) :
                    i \in 1..Len(TEST_EXCLUDE_REGEXES(m))} : m \in Contributing}

\* expression e, a list of alternatives separated by "|", has an empty one
HasEmptyAlternative(e) ==
    /\ e # << >>
    /\ \/ e[1] = "|"
       \/ e[Len(e)] = "|"
       \/ \E i \in 1..(Len(e) - 1) : e[i] = "|" /\ e[i + 1] = "|"

\* C14: the exclusion expression handed to the test harness holds exactly the
\* exclusion filters of the set-up modules that contribute inclusion filters,
\* as alternatives, and none of its alternatives is empty.
C14_ExcludeHasNoEmptyAlternative ==
    (cmd = "test" /\ selection # NoSelection) =>
        /\ Range(selection.exclude) \ {"|"} = ContributedExcludes
        /\ ~HasEmptyAlternative(selection.exclude)

Auto == <<"a", "u", "t", "o">>

\* s[a..b] is whitespace only
Blank(s, a, b) == \A i \in a..b : s[i] = " "

\* digits, each underscore standing between two digits
Grouped(s) ==
    /\ s # << >>
    /\ \A i \in 1..Len(s) :
        \/ IsDigit(s[i])
        \/ /\ s[i] = "_"
           /\ 1 < i /\ i < Len(s)
           /\ IsDigit(s[i - 1]) /\ IsDigit(s[i + 1])

Unsigned(s) == IF s # << >> /\ s[1] \in {"+", "-"} THEN Tail(s) ELSE s

\* the part of a decimal integer string between its surrounding whitespace
Cores(s) ==
    {SubSeq(s, ab[1] + 1, ab[2]) :
        ab \in {x \in (0..Len(s)) \X (0..Len(s)) :
                   /\ x[1] <= x[2]
                   /\ Blank(s, 1, x[1])
                   /\ Blank(s, x[2] + 1, Len(s))
                   /\ Grouped(Unsigned(SubSeq(s, x[1] + 1, x[2])))}}

\* a decimal integer string: Python's base-10 integer syntax
IsDecimalInteger(s) == Cores(s) # {}

RECURSIVE Magnitude(_)
\* the number a sequence of digits writes, last digit the units
Magnitude(d) ==
    IF d = << >> THEN 0
    ELSE DigitVal[d[Len(d)]] + 10 * Magnitude(SubSeq(d, 1, Len(d) - 1))

\* the integer a decimal integer string writes
DecimalValue(s) ==
    LET core == CHOOSE c \in Cores(s) : TRUE
        m    == Magnitude(SelectSeq(core, IsDigit))
    IN  IF core[1] = "-" THEN 0 - m ELSE m

\* the least integer that is at least n / 3
CeilOfThird(n) == CHOOSE k \in 0..n : 3 * k >= n /\ \A j \in 0..(k - 1) : 3 * j < n

\* C12: concurrency_cb answers "auto" with the integer ceil(cpu_count / 3),
\* which is at least 1 on a machine of at least one processing unit, answers
\* a decimal integer string with the integer it writes, and raises ValueError
\* for every other string.
C12_ConcurrencyArgument ==
    ret # NoRet =>
        /\ arg = Auto =>
            /\ cpus >= 1
            /\ ret = [kind |-> "int", val |-> CeilOfThird(cpus)]
            /\ ret.val >= 1
        /\ (arg # Auto /\ IsDecimalInteger(arg)) =>
            ret = [kind |-> "int", val |-> DecimalValue(arg)]
        /\ (arg # Auto /\ ~IsDecimalInteger(arg)) =>
            ret.kind = "ValueError"

C12_Witness ==
    /\ arg = Auto
    /\ cpus = MaxCpus
    /\ ret.kind = "int"
    /\ 3 * ret.val > cpus

\* system has been called
SystemCalled == spc # "idle" \/ sret # NoRet

\* a call of system has come to its end
SystemDone == spc = "idle" /\ sret # NoRet

\* the calls of function fn among the os calls made
CallsOf(fn) == SelectSeq(oscalls, LAMBDA c : c.fn = fn)

\* C13: system runs cmd exactly once and leaves the working directory of the
\* process as it found it: given cwd, it enters cwd before cmd runs and goes
\* back to the directory of before the call afterwards, also when running cmd
\* raises; not given cwd, it never changes directory.
C13_RunsOnceAndRestoresDirectory ==
    /\ (SystemCalled /\ s_cwd = << >>) =>
        CallsOf("chdir") = << >> /\ os_cwd = cwd0
    /\ SystemDone =>
        /\ CallsOf("system") = <<Call("system", s_cmd)>>
        /\ os_cwd = cwd0
        /\ s_cwd # << >> =>
            oscalls = <<Call("chdir", s_cwd), Call("system", s_cmd),
                        Call("chdir", cwd0)>>

C13_Witness ==
    /\ SystemDone
    /\ sret = Raised
    /\ s_cwd = <<"mycloud01">>
    /\ os_cwd = cwd0
    /\ Len(oscalls) = 3

\* C15: after system has returned, the process environment holds what it held
\* before the call: nothing added or overwritten from env stays.
C15_EnvironmentRestored ==
    (SystemDone /\ sret.kind = "return") => objects[os_environ] = env0

====
